---- MODULE Spec2Model ----
(***************************************************************************)
(* A model of hw1.py, the command-line contact manager: the field          *)
(* validators, Record, AddressBook, the command handlers and the REPL      *)
(* loop of Application.run.                                                *)
(*                                                                         *)
(* Python strings are modelled as sequences of characters, each character  *)
(* a one-character TLA+ string; "sup2" names the character U+00B2          *)
(* (SUPERSCRIPT TWO), for which str.isdigit() is true.                     *)
(***************************************************************************)
EXTENDS Integers, Sequences, FiniteSets, TLC

VARIABLES
    typed,      \* the string handed to Phone(...)              (SpecPhone)
    phoneRes,   \* the outcome of the last Phone(...) call      (SpecPhone)
    rec,        \* a Record object used on its own              (SpecRecord)
    book,       \* AddressBook.data: entries in insertion order (SpecBook, Spec)
    pc,         \* position of Application.run                  (Spec)
    file,       \* the content of addressbook.pk1               (Spec)
    out,        \* what the last step printed to the console    (SpecBook, Spec)
    last        \* the last call: its name, arguments, outcome  (all)

vars == <<typed, phoneRes, rec, book, pc, file, out, last>>

----------------------------------------------------------------------------
(* Bounds of the model *)

MaxStrLen == 11     \* longest string typed into Phone(...)
MaxPhones == 2      \* most phones held by the record of SpecRecord
MaxAddr   == 3      \* number of object addresses a Phone may get
MaxDays   == 9      \* days of `today` explored after each start date

----------------------------------------------------------------------------
(* Characters and strings *)

AsciiDigits == {"0", "1", "2", "3", "4", "5", "6", "7", "8", "9"}

DigitOrder == <<"0", "1", "2", "3", "4", "5", "6", "7", "8", "9">>

\* Characters outside 0-9 that str.isdigit() accepts (Numeric_Type=Digit).
UnicodeDigits == {"sup2"}

UpperChars == <<"A", "B", "C", "D", "E", "H", "I", "L", "O", "P", "S", "T", "X", "Y">>

LowerChars == <<"a", "b", "c", "d", "e", "h", "i", "l", "o", "p", "s", "t", "x", "y">>

Whitespace == {" ", "\t"}

\* str.isdigit(): non-empty and every character is a digit character.
isdigit(s) ==
    /\ Len(s) > 0
    /\ \A i \in 1..Len(s) : s[i] \in AsciiDigits \cup UnicodeDigits

\* str.lower() on the characters of the model's alphabet.
LowerChar(c) ==
    IF \E i \in 1..Len(UpperChars) : UpperChars[i] = c
    THEN LowerChars[CHOOSE i \in 1..Len(UpperChars) : UpperChars[i] = c]
    ELSE c

lower(s) == [i \in 1..Len(s) |-> LowerChar(s[i])]

----------------------------------------------------------------------------
(* Phone *)

PhoneLen == 10

\* Phone.__init__: raises ValueError unless value.isdigit() and len(value) = 10.
Phone(value) ==
    IF ~isdigit(value) \/ Len(value) # PhoneLen
    THEN [err |-> "ValueError"]
    ELSE [err |-> "none", value |-> value]

\* The characters typed in SpecPhone: a digit, a letter, punctuation, a
\* non-ASCII digit.
PhoneAlphabet == {"7", "a", "-", "sup2"}

Idle == [state |-> "idle"]

InitPhone ==
    /\ typed = <<>>
    /\ phoneRes = Idle
    /\ rec = [state |-> "unused"]
    /\ book = <<>>
    /\ pc = "unused"
    /\ file = [state |-> "unused"]
    /\ out = <<>>
    /\ last = [op |-> "none"]

\* The caller extends the string it is about to pass.
TypeChar(c) ==
    /\ Len(typed) < MaxStrLen
    /\ phoneRes = Idle
    /\ typed' = Append(typed, c)
    /\ UNCHANGED <<phoneRes, rec, book, pc, file, out, last>>

\* Phone(typed) is called.
ConstructPhone ==
    /\ phoneRes = Idle
    /\ phoneRes' = (IF Phone(typed).err = "none"
                    THEN [state |-> "ok", value |-> Phone(typed).value]
                    ELSE [state |-> Phone(typed).err])
    /\ UNCHANGED <<typed, rec, book, pc, file, out, last>>

NextPhone ==
    \/ \E c \in PhoneAlphabet : TypeChar(c)
    \/ ConstructPhone

SpecPhone == InitPhone /\ [][NextPhone]_vars

\* C4: Phone construction succeeds if and only if the input is exactly 10
\* characters long and every character is one of the decimal digits 0-9;
\* every other string fails with the validation error and yields no Phone.
C4_PhoneIffTenAsciiDigits ==
    phoneRes.state # "idle" =>
        /\ phoneRes.state = "ok" <=>
              (Len(typed) = 10 /\ \A i \in 1..Len(typed) : typed[i] \in AsciiDigits)
        /\ phoneRes.state = "ok" => phoneRes.value = typed
        /\ phoneRes.state # "ok" => phoneRes.state = "ValueError"

----------------------------------------------------------------------------
(* Calendar dates: datetime.date as [year, month, day] *)

IsLeap(y) == (y % 4 = 0) /\ ((y % 100 # 0) \/ (y % 400 = 0))

DaysInMonth(y, m) ==
    IF m = 2 THEN (IF IsLeap(y) THEN 29 ELSE 28)
    ELSE IF m \in {4, 6, 9, 11} THEN 30 ELSE 31

IsValidDate(y, m, d) ==
    /\ y \in 1..9999
    /\ m \in 1..12
    /\ d \in 1..DaysInMonth(y, m)

Date(y, m, d) == [year |-> y, month |-> m, day |-> d]

RECURSIVE DaysBeforeMonth(_, _)
DaysBeforeMonth(y, m) ==
    IF m = 1 THEN 0 ELSE DaysBeforeMonth(y, m - 1) + DaysInMonth(y, m - 1)

\* date.toordinal(): 1 for 0001-01-01.
toordinal(dt) ==
    LET y == dt.year - 1
    IN  y * 365 + (y \div 4) - (y \div 100) + (y \div 400)
        + DaysBeforeMonth(dt.year, dt.month) + dt.day

\* date.weekday(): Monday is 0, Sunday is 6.
weekday(dt) == (toordinal(dt) + 6) % 7

\* date.replace(year=y): ValueError when the month/day does not exist in y.
replace_year(dt, y) ==
    IF IsValidDate(y, dt.month, dt.day)
    THEN [err |-> "none", value |-> Date(y, dt.month, dt.day)]
    ELSE [err |-> "ValueError"]

NextDay(dt) ==
    IF dt.day < DaysInMonth(dt.year, dt.month) THEN Date(dt.year, dt.month, dt.day + 1)
    ELSE IF dt.month < 12 THEN Date(dt.year, dt.month + 1, 1)
    ELSE Date(dt.year + 1, 1, 1)

\* date + timedelta(days=n), n >= 0.
RECURSIVE AddDays(_, _)
AddDays(dt, n) == IF n = 0 THEN dt ELSE AddDays(NextDay(dt), n - 1)

\* Two decimal digits, zero padded (%d, %m).
TwoDigits(n) == <<DigitOrder[((n \div 10) % 10) + 1], DigitOrder[(n % 10) + 1]>>

\* %Y as glibc prints it: no padding, at least one digit.
RECURSIVE YearDigits(_)
YearDigits(n) ==
    IF n < 10 THEN <<DigitOrder[n + 1]>>
    ELSE Append(YearDigits(n \div 10), DigitOrder[(n % 10) + 1])

\* strftime('%d.%m.%Y')
strftime(dt) ==
    TwoDigits(dt.day) \o <<".">> \o TwoDigits(dt.month) \o <<".">> \o YearDigits(dt.year)

\* The value of a string of ASCII digits.
RECURSIVE DigitsValue(_)
DigitsValue(s) ==
    IF Len(s) = 0 THEN 0
    ELSE DigitsValue(SubSeq(s, 1, Len(s) - 1)) * 10
         + ((CHOOSE i \in 1..10 : DigitOrder[i] = s[Len(s)]) - 1)

AllAsciiDigits(s) == \A i \in 1..Len(s) : s[i] \in AsciiDigits

\* The fields of a string cut at the character sep.
RECURSIVE SplitOn(_, _)
SplitOn(s, sep) ==
    IF \A i \in 1..Len(s) : s[i] # sep THEN <<s>>
    ELSE LET k == CHOOSE i \in 1..Len(s) :
                      s[i] = sep /\ \A j \in 1..(i - 1) : s[j] # sep
         IN  <<SubSeq(s, 1, k - 1)>> \o SplitOn(SubSeq(s, k + 1, Len(s)), sep)

\* datetime.strptime(value, '%d.%m.%Y'): one or two digits, a dot, one or two
\* digits, a dot, four digits; then the date must exist.
strptime(value) ==
    LET f == SplitOn(value, ".")
    IN  IF /\ Len(f) = 3
           /\ Len(f[1]) \in 1..2 /\ AllAsciiDigits(f[1])
           /\ Len(f[2]) \in 1..2 /\ AllAsciiDigits(f[2])
           /\ Len(f[3]) = 4 /\ AllAsciiDigits(f[3])
           /\ IsValidDate(DigitsValue(f[3]), DigitsValue(f[2]), DigitsValue(f[1]))
        THEN [err |-> "none",
              value |-> Date(DigitsValue(f[3]), DigitsValue(f[2]), DigitsValue(f[1]))]
        ELSE [err |-> "ValueError"]

\* Birthday.__init__: the parsed date, or ValueError('Invalid date format...').
Birthday(value) ==
    IF strptime(value).err = "none"
    THEN [err |-> "none", obj |-> [cls |-> "Birthday", value |-> strptime(value).value]]
    ELSE [err |-> "ValueError"]

----------------------------------------------------------------------------
(* Record *)

\* record.birthday = None
None == [cls |-> "None"]

\* A Phone object: its address in memory and its value.
PhoneObj(addr, value) == [cls |-> "Phone", addr |-> addr, value |-> value]

\* A str passed where an object is expected.
StrObj(value) == [cls |-> "str", value |-> value]

Addrs == 1..MaxAddr

\* str(p) of a Phone: Field and Phone define no __str__, so this is
\* object.__str__, which shows the class and the address and not the value.
Str(p) == <<"<", "P", "h", "o", "n", "e", "@">> \o YearDigits(p.addr) \o <<">">>

\* Record.__init__
Record(name) == [name |-> name, phones |-> <<>>, birthday |-> None]

\* Record.add_phone
add_phone(r, phone) ==
    IF phone.cls # "Phone"
    THEN [err |-> "ValueError", rec |-> r]
    ELSE [err |-> "none", rec |-> [r EXCEPT !.phones = Append(@, phone)]]

\* Record.add_birthday
add_birthday(r, birthday) ==
    IF birthday.cls # "Birthday"
    THEN [err |-> "ValueError", rec |-> r]
    ELSE [err |-> "none", rec |-> [r EXCEPT !.birthday = birthday]]

\* Record.remove_phone: keeps the phones p with str(p) != phone.
remove_phone(r, phone) ==
    [r EXCEPT !.phones = SelectSeq(@, LAMBDA p : Str(p) # phone)]

\* Index of the first phone p with str(p) == s, 0 when there is none.
FirstMatch(r, s) ==
    IF \E i \in 1..Len(r.phones) : Str(r.phones[i]) = s
    THEN CHOOSE i \in 1..Len(r.phones) :
             Str(r.phones[i]) = s /\ \A j \in 1..(i - 1) : Str(r.phones[j]) # s
    ELSE 0

\* A mutant of edit_phone: a miss appends the new phone instead of raising.
edit_phone_AppendOnMiss(r, old_phone, new_phone, addr) ==
    IF Phone(new_phone).err # "none"
    THEN [err |-> "ValueError", msg |-> "must contain 10 digits", rec |-> r]
    ELSE [err |-> "none", msg |-> "",
          rec |-> [r EXCEPT !.phones =
                      SelectSeq(@, LAMBDA p : Str(p) # old_phone)
                      \o <<PhoneObj(addr, new_phone)>>]]

\* Record.edit_phone: the first phone p with str(p) == old_phone is replaced
\* in place by Phone(new_phone), built at address addr; without a match
\* ValueError('... not found for editing.') is raised.
edit_phone(r, old_phone, new_phone, addr) ==
    LET i == FirstMatch(r, old_phone)
    IN  IF i = 0
        THEN [err |-> "ValueError", msg |-> "not found for editing", rec |-> r]
        ELSE IF Phone(new_phone).err # "none"
        THEN [err |-> "ValueError", msg |-> "must contain 10 digits", rec |-> r]
        ELSE [err |-> "none", msg |-> "",
              rec |-> [r EXCEPT !.phones[i] = PhoneObj(addr, Phone(new_phone).value)]]

\* Record.find_phone
find_phone(r, phone) ==
    IF FirstMatch(r, phone) = 0 THEN None ELSE r.phones[FirstMatch(r, phone)]

\* Addresses of the Phone objects a record holds.
LiveAddrs(r) == {r.phones[i].addr : i \in 1..Len(r.phones)}

\* The values of a sequence of phones.
Values(phones) == [i \in 1..Len(phones) |-> phones[i].value]

----------------------------------------------------------------------------
(* SpecRecord: a client calls the methods of one Record *)

NameA == <<"a">>

NameB == <<"b">>

P1 == <<"1", "1", "1", "1", "1", "1", "1", "1", "1", "1">>

P2 == <<"2", "2", "2", "2", "2", "2", "2", "2", "2", "2">>

\* A string Phone(...) rejects.
BadPhone == <<"1", "2", "3", "4", "5">>

SamplePhones == {P1, P2}

\* Birthday strings: a new year's day, a leap day, a Wednesday, a Saturday
\* and a Sunday of June 2024.
SampleBirthdays ==
    {<<"0", "1", ".", "0", "1", ".", "1", "9", "8", "5">>,
     <<"2", "9", ".", "0", "2", ".", "2", "0", "0", "0">>,
     <<"1", "2", ".", "0", "6", ".", "1", "9", "9", "0">>,
     <<"1", "5", ".", "0", "6", ".", "1", "9", "9", "0">>,
     <<"1", "6", ".", "0", "6", ".", "1", "9", "9", "1">>}

\* The leap day and the Saturday among them.
LateBirthdays ==
    {<<"2", "9", ".", "0", "2", ".", "2", "0", "0", "0">>,
     <<"1", "5", ".", "0", "6", ".", "1", "9", "9", "0">>}

\* The birthday strings used on the record of SpecRecord.
RecBirthdays == {<<"1", "2", ".", "0", "6", ".", "1", "9", "9", "0">>}

\* The strings a client passes to remove_phone and edit_phone: phone
\* numbers, a malformed number, and what str() gave it for a held phone.
RecStrings(r) ==
    SamplePhones \cup {BadPhone}
    \cup {Str(r.phones[i]) : i \in 1..Len(r.phones)}

InitRecord ==
    /\ typed = <<>>
    /\ phoneRes = Idle
    /\ rec = Record(NameA)
    /\ book = <<>>
    /\ pc = "unused"
    /\ file = [state |-> "unused"]
    /\ out = <<>>
    /\ last = [op |-> "none"]

\* rec.add_phone(x), x a Phone built from a valid string or a plain str.
RecAddPhone(x) ==
    /\ Len(rec.phones) < MaxPhones
    /\ rec' = add_phone(rec, x).rec
    /\ last' = [op |-> "add_phone", arg |-> x, pre |-> rec,
                err |-> add_phone(rec, x).err]
    /\ UNCHANGED <<typed, phoneRes, book, pc, file, out>>

\* rec.add_birthday(x), x a Birthday or a plain str.
RecAddBirthday(x) ==
    /\ rec' = add_birthday(rec, x).rec
    /\ last' = [op |-> "add_birthday", arg |-> x, pre |-> rec,
                err |-> add_birthday(rec, x).err]
    /\ UNCHANGED <<typed, phoneRes, book, pc, file, out>>

\* rec.remove_phone(s)
RecRemovePhone(s) ==
    /\ rec' = remove_phone(rec, s)
    /\ last' = [op |-> "remove_phone", arg |-> s, pre |-> rec, err |-> "none"]
    /\ UNCHANGED <<typed, phoneRes, book, pc, file, out>>

\* rec.edit_phone(old, new); a Phone it builds gets the free address addr.
RecEditPhone(old, new, addr) ==
    LET res == edit_phone(rec, old, new, addr)
    IN  /\ rec' = res.rec
        /\ last' = [op |-> "edit_phone", old |-> old, new |-> new, pre |-> rec,
                    err |-> res.err, msg |-> res.msg]
    /\ UNCHANGED <<typed, phoneRes, book, pc, file, out>>

NextRecord ==
    \/ \E v \in SamplePhones, a \in Addrs \ LiveAddrs(rec) :
           RecAddPhone(PhoneObj(a, Phone(v).value))
    \/ RecAddPhone(StrObj(P1))
    \/ \E b \in RecBirthdays : RecAddBirthday(Birthday(b).obj)
    \/ \E b \in RecBirthdays : RecAddBirthday(StrObj(b))
    \/ \E s \in RecStrings(rec) : RecRemovePhone(s)
    \/ \E old \in RecStrings(rec), new \in SamplePhones \cup {BadPhone},
          a \in Addrs \ LiveAddrs(rec) :
           RecEditPhone(old, new, a)

SpecRecord == InitRecord /\ [][NextRecord]_vars

\* The phones of value v are dropped from a sequence of phones.
WithoutValue(phones, v) == SelectSeq(phones, LAMBDA p : p.value # v)

HasValue(phones, v) == \E i \in 1..Len(phones) : phones[i].value = v

\* C5: on a record holding a phone of value old, edit_phone(old, new) with a
\* valid new completes without error and leaves the previous phones without
\* those of value old, followed by one phone of value new.
C5_EditReplacesOld ==
    (/\ last.op = "edit_phone"
     /\ HasValue(last.pre.phones, last.old)
     /\ Phone(last.new).err = "none")
    => /\ last.err = "none"
       /\ Values(rec.phones) = Values(WithoutValue(last.pre.phones, last.old)) \o <<last.new>>

\* C6 as stated: when no phone matches old, edit_phone(old, new) with a valid
\* new does not fail, keeps the phones and appends a phone of value new.
C6_SilentMissAppends ==
    (/\ last.op = "edit_phone"
     /\ ~HasValue(last.pre.phones, last.old)
     /\ FirstMatch(last.pre, last.old) = 0
     /\ Phone(last.new).err = "none")
    => /\ last.err = "none"
       /\ Values(rec.phones) = Values(last.pre.phones) \o <<last.new>>

\* C6 as amended: when no phone p of the record has str(p) equal to old,
\* edit_phone(old, new) raises ValueError("... not found for editing.") for
\* every new and leaves the record as it was: nothing is appended.
C6_MissRaisesNotFound ==
    (/\ last.op = "edit_phone"
     /\ FirstMatch(last.pre, last.old) = 0)
    => /\ last.err = "ValueError"
       /\ last.msg = "not found for editing"
       /\ rec = last.pre

\* A miss on a record that holds phones, with a valid new number.
C6_Witness ==
    /\ last.op = "edit_phone"
    /\ FirstMatch(last.pre, last.old) = 0
    /\ ~HasValue(last.pre.phones, last.old)
    /\ Len(last.pre.phones) >= 1
    /\ last.old = P1
    /\ last.new = P2
    /\ last.err = "ValueError"

\* C7: after remove_phone(s) no phone built from the string s remains, the
\* other phones (those neither built from s nor with str() equal to s) keep
\* their values and order, name and birthday are unchanged, and nothing is
\* raised.
C7_RemoveDropsValue ==
    last.op = "remove_phone" =>
        /\ last.err = "none"
        /\ ~HasValue(rec.phones, last.arg)
        /\ rec.phones = SelectSeq(last.pre.phones,
                                  LAMBDA p : p.value # last.arg /\ Str(p) # last.arg)
        /\ rec.name = last.pre.name
        /\ rec.birthday = last.pre.birthday

----------------------------------------------------------------------------
(* AddressBook: data, a dict, as the sequence of its entries in insertion  *)
(* order                                                                   *)

HasKey(b, name) == \E i \in 1..Len(b) : b[i].key = name

KeyIndex(b, name) == CHOOSE i \in 1..Len(b) : b[i].key = name

\* A mutant of add_record: an existing record is merged with the new one,
\* keeping its phones and its birthday when the new record has none.
add_record_Merge(b, record) ==
    IF HasKey(b, record.name)
    THEN [b EXCEPT ![KeyIndex(b, record.name)].rec =
             [name |-> record.name,
              phones |-> @.phones \o record.phones,
              birthday |-> IF record.birthday.cls = "None" THEN @.birthday
                           ELSE record.birthday]]
    ELSE Append(b, [key |-> record.name, rec |-> record])

\* AddressBook.add_record: self.data[record.name.value] = record. An
\* existing key keeps its place in the order and gets the new value.
add_record(b, record) ==
    IF HasKey(b, record.name)
    THEN [b EXCEPT ![KeyIndex(b, record.name)].rec = record]
    ELSE Append(b, [key |-> record.name, rec |-> record])

\* AddressBook.find: self.data.get(name)
find(b, name) == IF HasKey(b, name) THEN b[KeyIndex(b, name)].rec ELSE None

\* AddressBook.delete
delete(b, name) == SelectSeq(b, LAMBDA e : e.key # name)

\* A mutant of InWindow: the seventh day is left out.
InWindow_Exclusive(days) == 0 <= days /\ days < 7

\* if 0 <= days_until_birthday <= 7
InWindow(days) == 0 <= days /\ days <= 7

\* A mutant of GreetingDate: a weekend birthday is moved by one day only.
GreetingDate_NextDay(bd) ==
    IF weekday(bd) \in {5, 6} THEN AddDays(bd, 1) ELSE bd

\* The date to congratulate on: the Monday after a Saturday or Sunday,
\* birthday + timedelta(days = 7 - weekday), else the birthday itself.
GreetingDate(bd) ==
    IF weekday(bd) \in {5, 6} THEN AddDays(bd, 7 - weekday(bd)) ELSE bd

\* The body of the loop of get_upcoming_birthdays for one record: the
\* entries it appends, or the ValueError of date.replace.
BirthdayEntry(record, today) ==
    IF record.birthday.cls = "None" THEN [err |-> "none", entries |-> <<>>]
    ELSE
    LET birthday_date == record.birthday.value
        this_year == replace_year(birthday_date, today.year)
    IN  IF this_year.err # "none" THEN [err |-> "ValueError"]
        ELSE
        LET rolled == IF toordinal(this_year.value) < toordinal(today)
                      THEN replace_year(this_year.value, today.year + 1)
                      ELSE this_year
        IN  IF rolled.err # "none" THEN [err |-> "ValueError"]
            ELSE
            LET birthday_this_year == rolled.value
                days_until_birthday == toordinal(birthday_this_year) - toordinal(today)
            IN  IF InWindow(days_until_birthday)
                THEN [err |-> "none",
                      entries |-> <<[name |-> record.name,
                                     congradulation_date |->
                                         strftime(GreetingDate(birthday_this_year))]>>]
                ELSE [err |-> "none", entries |-> <<>>]

RECURSIVE UpcomingFrom(_, _, _)
UpcomingFrom(b, i, today) ==
    IF i > Len(b) THEN [err |-> "none", value |-> <<>>]
    ELSE LET e == BirthdayEntry(b[i].rec, today)
         IN  IF e.err # "none" THEN [err |-> e.err]
             ELSE LET rest == UpcomingFrom(b, i + 1, today)
                  IN  IF rest.err # "none" THEN rest
                      ELSE [err |-> "none", value |-> e.entries \o rest.value]

\* AddressBook.get_upcoming_birthdays, with today = datetime.today().date().
get_upcoming_birthdays(b, today) == UpcomingFrom(b, 1, today)

\* Record.display_info
display_info(r) ==
    [name |-> r.name,
     phones |-> Values(r.phones),
     birthday |-> IF r.birthday.cls = "None"
                  THEN <<"N", "o", "t", " ", "S", "e", "t">>
                  ELSE strftime(r.birthday.value)]

----------------------------------------------------------------------------
(* Command handlers. A handler yields the book it leaves, the lines it     *)
(* prints, the exception it lets escape (raised), the value it returns     *)
(* (ret) and the way it failed (fail).                                     *)

Msg(text, args) == [text |-> text, args |-> args]

Done(b, printed, fail) ==
    [book |-> b, out |-> printed, raised |-> "none", ret |-> "None", fail |-> fail]

Raise(b, printed, exc, fail) ==
    [book |-> b, out |-> printed, raised |-> exc, ret |-> "None", fail |-> fail]

\* input_error: ValueError, KeyError and IndexError do not escape; the
\* wrapper returns the message for them and prints nothing.
input_error(res) ==
    IF res.raised \in {"ValueError", "KeyError", "IndexError"}
    THEN [res EXCEPT !.raised = "none",
                     !.ret = IF res.raised = "KeyError" THEN "Contact not found."
                             ELSE "Invalid command format."]
    ELSE res

\* A mutant of handle_add_command: the phone is added to the record already
\* stored under the name.
handle_add_command_Merge(args, b, addr) ==
    IF Len(args) # 2
    THEN Done(b, <<Msg("Usage: add [name] [phone number]", <<>>)>>, "usage")
    ELSE IF Phone(args[2]).err # "none"
    THEN Done(b, <<Msg("Phone number must contain 10 digits.", <<>>)>>, "validation")
    ELSE Done(add_record(b, add_phone(IF HasKey(b, args[1]) THEN find(b, args[1])
                                      ELSE Record(args[1]),
                                      PhoneObj(addr, Phone(args[2]).value)).rec),
              <<Msg("Contact added.", args)>>, "none")

\* handle_add_command; the Phone it builds gets the free address addr.
handle_add_command(args, b, addr) ==
    IF Len(args) # 2
    THEN Done(b, <<Msg("Usage: add [name] [phone number]", <<>>)>>, "usage")
    ELSE IF Phone(args[2]).err # "none"
    THEN Done(b, <<Msg("Phone number must contain 10 digits.", <<>>)>>, "validation")
    ELSE Done(add_record(b, add_phone(Record(args[1]),
                                      PhoneObj(addr, Phone(args[2]).value)).rec),
              <<Msg("Contact added.", args)>>, "none")

\* The handler add_birthday, under input_error.
handle_add_birthday(args, b) ==
    input_error(
        IF Len(args) # 2
        THEN Done(b, <<Msg("Usage: add birthday [name] [birthdaydate]", <<>>)>>, "usage")
        ELSE IF ~HasKey(b, args[1])
        THEN Done(b, <<Msg("Contact not found.", <<args[1]>>)>>, "not found")
        ELSE IF Birthday(args[2]).err # "none"
        THEN Done(b, <<Msg("Invalid date format. Use DD.MM.YYYY", <<>>)>>, "validation")
        ELSE Done([b EXCEPT ![KeyIndex(b, args[1])].rec =
                       add_birthday(@, Birthday(args[2]).obj).rec],
                  <<Msg("Birthday added.", <<args[1]>>)>>, "none"))

\* The handler show_birthday, under input_error.
show_birthday(args, b) ==
    input_error(
        IF Len(args) # 1
        THEN Done(b, <<Msg("Usage: show birthday [name]", <<>>)>>, "usage")
        ELSE IF ~HasKey(b, args[1])
        THEN Done(b, <<Msg("Contact not found.", <<args[1]>>)>>, "not found")
        ELSE IF find(b, args[1]).birthday.cls = "None"
        THEN Done(b, <<Msg("No birthday set.", <<args[1]>>)>>, "none")
        ELSE Done(b, <<Msg("birthday is on",
                           <<args[1], strftime(find(b, args[1]).birthday.value)>>)>>,
                  "none"))

\* The handler birthdays, under input_error.
birthdays(args, b, today) ==
    input_error(
        LET upcoming_birthdays == get_upcoming_birthdays(b, today)
        IN  IF upcoming_birthdays.err # "none"
            THEN Raise(b, <<>>, upcoming_birthdays.err, "runtime")
            ELSE IF upcoming_birthdays.value # <<>>
            THEN Done(b, <<Msg("Upcoming birthdays for next week:", <<>>)>>
                         \o [i \in 1..Len(upcoming_birthdays.value) |->
                                Msg("birthday is on",
                                    <<upcoming_birthdays.value[i].name,
                                      upcoming_birthdays.value[i].congradulation_date>>)],
                      "none")
            ELSE Done(b, <<Msg("No upcoming birthdays for next week.", <<>>)>>, "none"))

\* handle_change_phone_command. old_phone is str(record.phones[0]), so the
\* first phone matches in edit_phone, which is handed a Phone where it
\* expects a str: Phone(new_phone) then fails on new_phone.isdigit().
handle_change_phone_command(args, b) ==
    IF Len(args) # 2
    THEN Done(b, <<Msg("Usage: change phone [name] [new phone number]", <<>>)>>, "usage")
    ELSE IF ~HasKey(b, args[1])
    THEN Done(b, <<Msg("Contact not found.", <<args[1]>>)>>, "not found")
    ELSE IF Len(find(b, args[1]).phones) = 0
    THEN Raise(b, <<>>, "IndexError", "runtime")
    ELSE IF Phone(args[2]).err # "none"
    THEN Done(b, <<Msg("Phone number must contain 10 digits.", <<>>)>>, "validation")
    ELSE IF FirstMatch(find(b, args[1]), Str(find(b, args[1]).phones[1])) = 0
    THEN Done(b, <<Msg("not found for editing.", <<>>)>>, "validation")
    ELSE Raise(b, <<>>, "AttributeError", "runtime")

\* handle_phone_command: the phone is printed with str(), see Str.
handle_phone_command(args, b) ==
    IF Len(args) # 1
    THEN Done(b, <<Msg("Usage: phone [name]", <<>>)>>, "usage")
    ELSE IF ~HasKey(b, args[1])
    THEN Done(b, <<Msg("Contact not found.", <<args[1]>>)>>, "not found")
    ELSE IF Len(find(b, args[1]).phones) = 0
    THEN Done(b, <<Msg("No phone number found.", <<args[1]>>)>>, "none")
    ELSE Done(b, <<Msg("Phone number for", <<args[1], Str(find(b, args[1]).phones[1])>>)>>,
              "none")

\* handle_all_command: AddressBook.display_all_users
handle_all_command(b) ==
    IF Len(b) > 0
    THEN Done(b, <<Msg("All contacts:", <<>>)>>
                 \o [i \in 1..Len(b) |-> Msg("Contact", <<display_info(b[i].rec)>>)],
              "none")
    ELSE Done(b, <<Msg("No contacts found.", <<>>)>>, "none")

\* handle_hello_command
handle_hello_command(b) == Done(b, <<Msg("How can I help you", <<>>)>>, "none")

\* ConsoleInterface.display_help
display_help(b) == Done(b, <<Msg("List of available commands:", <<>>)>>, "none")

----------------------------------------------------------------------------
(* SpecBook: a client calls the methods of one AddressBook and the         *)
(* handlers that take (args, book)                                         *)

\* The first days of the ranges `today` is drawn from: the end of a common
\* year, the end of February of a leap year, and June 2024.
StartDates == {Date(2023, 12, 24), Date(2024, 2, 22), Date(2024, 6, 7)}

\* The values datetime.today().date() takes.
Todays == {AddDays(d, k) : d \in StartDates, k \in 0..MaxDays}

\* A Record as a client builds it: Record(name), add_phone for each value
\* (the phones at consecutive addresses from addr), add_birthday.
MkRecord(name, values, addr, birthday) ==
    [name |-> name,
     phones |-> [i \in 1..Len(values) |-> PhoneObj(addr + i - 1, values[i])],
     birthday |-> birthday]

\* The records handed to add_record.
SampleRecords ==
    {MkRecord(NameA, <<>>, 1, None), MkRecord(NameA, <<P2, P1>>, 1, None),
     MkRecord(NameB, <<>>, 1, None)}
    \cup {MkRecord(NameA, <<P1>>, 1, Birthday(b).obj) : b \in SampleBirthdays}
    \cup {MkRecord(NameB, <<P2>>, MaxAddr, Birthday(b).obj) : b \in LateBirthdays}

\* The argument lists handed to handle_add_command and
\* handle_change_phone_command.
SampleArgs == {<<NameA, P2>>, <<NameB, P1>>, <<NameB, BadPhone>>, <<NameA>>}

BookAddrs(b) == UNION {LiveAddrs(b[i].rec) : i \in 1..Len(b)}

InitBook ==
    /\ typed = <<>>
    /\ phoneRes = Idle
    /\ rec = [state |-> "unused"]
    /\ book = <<>>
    /\ pc = "unused"
    /\ file = [state |-> "unused"]
    /\ out = <<>>
    /\ last = [op |-> "none"]

\* book.add_record(r). The phones of r are objects of their own: none of
\* them is held by a record under another name.
BookAddRecord(r) ==
    /\ LiveAddrs(r) \cap BookAddrs(delete(book, r.name)) = {}
    /\ book' = add_record(book, r)
    /\ out' = <<>>
    /\ last' = [op |-> "add_record", arg |-> r, replaced |-> HasKey(book, r.name),
                old |-> find(book, r.name), err |-> "none"]
    /\ UNCHANGED <<typed, phoneRes, rec, pc, file>>

\* book.delete(name)
BookDelete(name) ==
    /\ book' = delete(book, name)
    /\ out' = <<>>
    /\ last' = [op |-> "delete", arg |-> name, err |-> "none"]
    /\ UNCHANGED <<typed, phoneRes, rec, pc, file>>

\* book.get_upcoming_birthdays() on the day today.
BookUpcoming(today) ==
    LET res == get_upcoming_birthdays(book, today)
    IN  /\ out' = <<>>
        /\ last' = [op |-> "get_upcoming_birthdays", today |-> today,
                    err |-> res.err,
                    value |-> IF res.err = "none" THEN res.value ELSE <<>>]
        /\ UNCHANGED <<typed, phoneRes, rec, book, pc, file>>

\* handle_add_command(args, book)
BookHandleAdd(args, addr) ==
    LET res == handle_add_command(args, book, addr)
    IN  /\ book' = res.book
        /\ out' = res.out
        /\ last' = [op |-> "handle_add_command", args |-> args,
                    replaced |-> Len(args) > 0 /\ HasKey(book, args[1]),
                    old |-> IF Len(args) > 0 THEN find(book, args[1]) ELSE None,
                    err |-> res.fail]
        /\ UNCHANGED <<typed, phoneRes, rec, pc, file>>

\* handle_change_phone_command(args, book)
BookHandleChangePhone(args) ==
    LET res == handle_change_phone_command(args, book)
    IN  /\ book' = res.book
        /\ out' = res.out
        /\ last' = [op |-> "handle_change_phone_command", args |-> args,
                    err |-> IF res.raised # "none" THEN res.raised ELSE res.fail]
        /\ UNCHANGED <<typed, phoneRes, rec, pc, file>>

NextBook ==
    \/ \E r \in SampleRecords : BookAddRecord(r)
    \/ \E n \in {NameA, NameB} : BookDelete(n)
    \/ \E t \in Todays : BookUpcoming(t)
    \/ \E args \in SampleArgs, a \in Addrs \ BookAddrs(book) : BookHandleAdd(args, a)
    \/ \E args \in SampleArgs : BookHandleChangePhone(args)

SpecBook == InitBook /\ [][NextBook]_vars

\* The names of the records of b, in the order of b.
Names(entries) == [i \in 1..Len(entries) |-> entries[i].name]

\* The month and day of bd fall on one of the days today .. today + 7.
DueWithinWeek(bd, today) ==
    \E k \in 0..7 : AddDays(today, k).month = bd.month /\ AddDays(today, k).day = bd.day

\* The names of the records with a birthday due within the week, in the
\* book's insertion order.
DueNames(b, today) ==
    LET due == SelectSeq(b, LAMBDA e : /\ e.rec.birthday.cls # "None"
                                       /\ DueWithinWeek(e.rec.birthday.value, today))
    IN  [i \in 1..Len(due) |-> due[i].rec.name]

\* Some record's birthday is 29 February and today's year has no such day
\* on or after today: it is a common year, or today is past 29 February.
LeapDayUnmappable(b, today) ==
    \E i \in 1..Len(b) :
        /\ b[i].rec.birthday.cls # "None"
        /\ b[i].rec.birthday.value.month = 2
        /\ b[i].rec.birthday.value.day = 29
        /\ \/ ~IsLeap(today.year)
           \/ today.month > 2

\* C1 as stated: for every book and every today, get_upcoming_birthdays
\* returns exactly one entry for each record whose birthday's month/day
\* falls 0 to 7 days after today, and no other, in insertion order.
C1_UpcomingForEveryBook ==
    last.op = "get_upcoming_birthdays" =>
        /\ last.err = "none"
        /\ Names(last.value) = DueNames(book, last.today)

\* C1 as amended: get_upcoming_birthdays raises ValueError and returns
\* nothing exactly when some record's birthday is 29 February and today's
\* year is a common year or today is past February; in every other case it
\* returns exactly one entry for each record whose birthday's month/day
\* falls 0 to 7 days after today, both ends included, and no other, in the
\* book's insertion order.
C1_UpcomingUnlessLeapDay ==
    last.op = "get_upcoming_birthdays" =>
        /\ last.err = "ValueError" <=> LeapDayUnmappable(book, last.today)
        /\ last.err # "ValueError" =>
              /\ last.err = "none"
              /\ Names(last.value) = DueNames(book, last.today)

\* In the last week of December a new year's day birthday is reported (next
\* year's occurrence) and a June birthday is not.
C1_Witness ==
    /\ last.op = "get_upcoming_birthdays"
    /\ last.err = "none"
    /\ last.today = Date(2023, 12, 25)
    /\ Len(book) = 2
    /\ \A i \in 1..2 : book[i].rec.birthday.cls # "None"
    /\ book[1].rec.birthday.value.month = 6
    /\ Names(last.value) = <<book[2].rec.name>>

\* A Monday.
MondayAnchor == Date(2001, 1, 1)

\* Days since the last Monday: 0 on Monday .. 6 on Sunday.
DaysSinceMonday(dt) == (toordinal(dt) - toordinal(MondayAnchor)) % 7

\* The day among today .. today + 7 with the month and day of bd.
Occurrence(bd, today) ==
    AddDays(today, CHOOSE k \in 0..7 :
                       /\ AddDays(today, k).month = bd.month
                       /\ AddDays(today, k).day = bd.day)

\* C2: for every record get_upcoming_birthdays includes, the greeting date
\* is the occurrence itself on Monday to Friday, the occurrence + 2 days on
\* a Saturday and the occurrence + 1 day on a Sunday.
C2_GreetingDate ==
    (last.op = "get_upcoming_birthdays" /\ last.err = "none") =>
        \A i \in 1..Len(last.value) :
            LET occ == Occurrence(find(book, last.value[i].name).birthday.value,
                                  last.today)
                shift == CASE DaysSinceMonday(occ) = 5 -> 2
                           [] DaysSinceMonday(occ) = 6 -> 1
                           [] OTHER -> 0
            IN  /\ strptime(last.value[i].congradulation_date).err = "none"
                /\ strptime(last.value[i].congradulation_date).value = AddDays(occ, shift)

\* On 10.06.2024 the birthday 15.06.1990, a Saturday in 2024, is greeted on
\* 17.06.2024, and the birthday 12.06.1990, a Wednesday, on 12.06.2024.
C2_Witness ==
    /\ last.op = "get_upcoming_birthdays"
    /\ last.err = "none"
    /\ last.today = Date(2024, 6, 10)
    /\ Len(last.value) = 2
    /\ last.value[1].congradulation_date =
           <<"1", "2", ".", "0", "6", ".", "2", "0", "2", "4">>
    /\ find(book, last.value[1].name).birthday.value = Date(1990, 6, 12)
    /\ last.value[2].congradulation_date =
           <<"1", "7", ".", "0", "6", ".", "2", "0", "2", "4">>
    /\ find(book, last.value[2].name).birthday.value = Date(1990, 6, 15)

\* C3: add_record of a record whose name is already a key, and the add
\* command for an existing name, overwrite without merging: find(name) is
\* the new record with exactly its phones and birthday, the number of
\* entries is unchanged and so is every entry under another name.
C3_AddOverwrites ==
    [][(/\ last'.op \in {"add_record", "handle_add_command"}
        /\ last'.err = "none"
        /\ last'.replaced)
       => LET name == IF last'.op = "add_record" THEN last'.arg.name
                      ELSE last'.args[1]
          IN  /\ HasKey(book, name)
              /\ IF last'.op = "add_record"
                 THEN find(book', name) = last'.arg
                 ELSE /\ find(book', name).name = name
                      /\ Values(find(book', name).phones) = <<last'.args[2]>>
                      /\ find(book', name).birthday = None
              /\ Len(book') = Len(book)
              /\ \A i \in 1..Len(book) :
                     /\ book'[i].key = book[i].key
                     /\ book[i].key # name => book'[i] = book[i]]_vars

\* A record with one phone and a birthday has been overwritten by a record
\* with other phones and no birthday, another entry standing by.
C3_Witness ==
    /\ last.op = "add_record"
    /\ last.replaced
    /\ Len(book) = 2
    /\ Len(last.old.phones) = 1
    /\ last.old.birthday.cls = "Birthday"
    /\ Values(last.arg.phones) = <<P2, P1>>
    /\ find(book, last.arg.name) = last.arg
    /\ find(book, last.arg.name).birthday = None

----------------------------------------------------------------------------
(* The REPL: Application.run *)

\* s without its leading whitespace.
RECURSIVE lstrip(_)
lstrip(s) ==
    IF Len(s) > 0 /\ s[1] \in Whitespace THEN lstrip(Tail(s)) ELSE s

\* The length of the first whitespace-free run of s, which starts with one.
TokenLen(s) ==
    CHOOSE k \in 1..Len(s) :
        /\ \A j \in 1..k : s[j] \notin Whitespace
        /\ k = Len(s) \/ s[k + 1] \in Whitespace

\* str.split(): the whitespace-separated words of s.
RECURSIVE split(_)
split(s) ==
    LET t == lstrip(s)
    IN  IF Len(t) = 0 THEN <<>>
        ELSE <<SubSeq(t, 1, TokenLen(t))>> \o split(SubSeq(t, TokenLen(t) + 1, Len(t)))

\* str.split(maxsplit=1): the first word, and the rest when there is one.
split_maxsplit1(s) ==
    LET t == lstrip(s)
    IN  IF Len(t) = 0 THEN <<>>
        ELSE LET rest == lstrip(SubSeq(t, TokenLen(t) + 1, Len(t)))
             IN  IF Len(rest) = 0 THEN <<SubSeq(t, 1, TokenLen(t))>>
                 ELSE <<SubSeq(t, 1, TokenLen(t)), rest>>

\* parse_input: parts[0] raises IndexError on a line without a word.
parse_input(user_input) ==
    LET parts == split_maxsplit1(user_input)
    IN  IF Len(parts) = 0 THEN [err |-> "IndexError"]
        ELSE [err |-> "none",
              cmd |-> lower(parts[1]),
              args |-> IF Len(parts) > 1 THEN split(parts[2]) ELSE <<>>]

W_close == <<"c", "l", "o", "s", "e">>

W_exit == <<"e", "x", "i", "t">>

W_hello == <<"h", "e", "l", "l", "o">>

W_add == <<"a", "d", "d">>

W_change_phone == <<"c", "h", "a", "n", "g", "e", " ", "p", "h", "o", "n", "e">>

W_phone == <<"p", "h", "o", "n", "e">>

W_all == <<"a", "l", "l">>

W_add_birthday == <<"a", "d", "d", " ", "b", "i", "r", "t", "h", "d", "a", "y">>

W_show_birthday == <<"s", "h", "o", "w", " ", "b", "i", "r", "t", "h", "d", "a", "y">>

W_birthdays == <<"b", "i", "r", "t", "h", "d", "a", "y", "s">>

W_help == <<"h", "e", "l", "p">>

W_birthday == <<"b", "i", "r", "t", "h", "d", "a", "y">>

\* The command names run compares with. parse_input yields one word, so the
\* names with a blank in them are never met.
KnownCommands ==
    {W_close, W_exit, W_hello, W_add, W_change_phone, W_phone, W_all,
     W_add_birthday, W_show_birthday, W_birthdays, W_help}

\* The lines typed at the prompt.
InputLines ==
    {<<>>,
     <<" ">>,
     <<" ", "\t", " ">>,
     <<"h", "e", "l", "l", "o">>,
     <<"h", "e", "l", "p">>,
     <<"a", "l", "l">>,
     <<"b", "i", "r", "t", "h", "d", "a", "y", "s">>,
     <<"e", "x", "i", "t">>,
     <<"c", "l", "o", "s", "e">>,
     <<"E", "X", "I", "T">>,
     <<" ", "C", "l", "o", "s", "e", " ">>,
     <<"a", "d", "d", " ", "a", " ", "1", "1", "1", "1", "1", "1", "1", "1", "1", "1">>,
     <<"a", "d", "d", " ", "a", " ", "2", "2", "2", "2", "2", "2", "2", "2", "2", "2">>,
     <<"a", "d", "d", " ", "b", " ", "2", "2", "2", "2", "2", "2", "2", "2", "2", "2">>,
     <<"A", "D", "D", " ", " ", "b", " ", "1", "1", "1", "1", "1", "1", "1", "1", "1", "1", " ">>,
     <<"a", "d", "d", " ", "a", " ", "1", "2", "3", "4", "5">>,
     <<"a", "d", "d", " ", "b", " ", "1", "1", "1", "-", "1", "1", "1", "-", "1", "1">>,
     <<"a", "d", "d", " ", "a">>,
     <<"a", "d", "d">>,
     <<"a", "d", "d", " ", "a", " ", "1", "1", "1", "1", "1", "1", "1", "1", "1", "1", " ", "x">>,
     <<"a", "d", "d", " ", "b", "i", "r", "t", "h", "d", "a", "y", " ", "a", " ", "2", "9", ".", "0", "2", ".", "2", "0", "0", "0">>,
     <<"a", "d", "d", " ", "b", "i", "r", "t", "h", "d", "a", "y", " ", "b", " ", "1", "5", ".", "0", "6", ".", "1", "9", "9", "0">>,
     <<"a", "d", "d", " ", "b", "i", "r", "t", "h", "d", "a", "y", " ", "a", " ", "1", ".", "1", ".", "1", "9", "8", "5">>,
     <<"a", "d", "d", " ", "b", "i", "r", "t", "h", "d", "a", "y", " ", "a", " ", "3", "1", ".", "0", "2", ".", "2", "0", "0", "0">>,
     <<"a", "d", "d", " ", "b", "i", "r", "t", "h", "d", "a", "y", " ", "c", " ", "1", "5", ".", "0", "6", ".", "1", "9", "9", "0">>,
     <<"a", "d", "d", " ", "b", "i", "r", "t", "h", "d", "a", "y", " ", "a">>,
     <<"a", "d", "d", " ", "B", "i", "r", "t", "h", "d", "a", "y", " ", "a">>,
     <<"p", "h", "o", "n", "e", " ", "a">>,
     <<"p", "h", "o", "n", "e", " ", "c">>,
     <<"p", "h", "o", "n", "e">>,
     <<"c", "h", "a", "n", "g", "e", " ", "p", "h", "o", "n", "e", " ", "a", " ", "2", "2", "2", "2", "2", "2", "2", "2", "2", "2">>,
     <<"s", "h", "o", "w", " ", "b", "i", "r", "t", "h", "d", "a", "y", " ", "a">>,
     <<"b", "y", "e">>}

\* Each line with what parse_input makes of it.
ParsedLines == {[line |-> l, parsed |-> parse_input(l)] : l \in InputLines}

\* save_data: the book pickled into the file.
save_data(b) == [state |-> "saved", book |-> b]

\* Application.__init__ with no addressbook.pk1: load_data() gives an empty
\* book. run() prints the welcome line.
Init ==
    /\ typed = <<>>
    /\ phoneRes = Idle
    /\ rec = [state |-> "unused"]
    /\ book = <<>>
    /\ pc = "running"
    /\ file = [state |-> "absent"]
    /\ out = <<Msg("Welcome to the assistant bot!", <<>>)>>
    /\ last = [op |-> "none", line |-> <<>>, fail |-> "none", raised |-> "none",
               pre |-> <<>>]

\* What a handler did becomes the step of the loop: an exception that
\* escapes the handler ends run().
Dispatch(op, line, res) ==
    /\ book' = res.book
    /\ out' = res.out
    /\ pc' = IF res.raised = "none" THEN "running" ELSE "crashed"
    /\ last' = [op |-> op, line |-> line, fail |-> res.fail, raised |-> res.raised,
                pre |-> book]
    /\ UNCHANGED <<typed, phoneRes, rec, file>>

\* A line without a word: parse_input raises IndexError, which nothing
\* catches; run() ends without save_data.
ReadBlank(in) ==
    /\ pc = "running"
    /\ in.parsed.err # "none"
    /\ pc' = "crashed"
    /\ out' = <<>>
    /\ last' = [op |-> "parse_input", line |-> in.line, fail |-> "none",
                raised |-> in.parsed.err, pre |-> book]
    /\ UNCHANGED <<typed, phoneRes, rec, book, file>>

\* close, exit
CmdExit(in) ==
    /\ pc = "running"
    /\ in.parsed.err = "none"
    /\ in.parsed.cmd \in {W_close, W_exit}
    /\ out' = <<Msg("Good bye!", <<>>)>>
    /\ file' = save_data(book)
    /\ pc' = "done"
    /\ last' = [op |-> "exit", line |-> in.line, fail |-> "none", raised |-> "none",
                pre |-> book]
    /\ UNCHANGED <<typed, phoneRes, rec, book>>

CmdHello(in) ==
    /\ pc = "running"
    /\ in.parsed.err = "none"
    /\ in.parsed.cmd = W_hello
    /\ Dispatch("hello", in.line, handle_hello_command(book))

\* add birthday ...: the branch of add for args[0] == 'birthday'
CmdAddBirthday(in) ==
    /\ pc = "running"
    /\ in.parsed.err = "none"
    /\ in.parsed.cmd = W_add
    /\ Len(in.parsed.args) > 0
    /\ in.parsed.args[1] = W_birthday
    /\ Dispatch("add birthday", in.line,
                handle_add_birthday(Tail(in.parsed.args), book))

\* add ...
CmdAdd(in, addr) ==
    /\ pc = "running"
    /\ in.parsed.err = "none"
    /\ in.parsed.cmd = W_add
    /\ ~(Len(in.parsed.args) > 0 /\ in.parsed.args[1] = W_birthday)
    /\ Dispatch("add", in.line, handle_add_command(in.parsed.args, book, addr))

CmdPhone(in) ==
    /\ pc = "running"
    /\ in.parsed.err = "none"
    /\ in.parsed.cmd = W_phone
    /\ Dispatch("phone", in.line, handle_phone_command(in.parsed.args, book))

CmdAll(in) ==
    /\ pc = "running"
    /\ in.parsed.err = "none"
    /\ in.parsed.cmd = W_all
    /\ Dispatch("all", in.line, handle_all_command(book))

\* birthdays, on the day today
CmdBirthdays(in, today) ==
    /\ pc = "running"
    /\ in.parsed.err = "none"
    /\ in.parsed.cmd = W_birthdays
    /\ Dispatch("birthdays", in.line, birthdays(in.parsed.args, book, today))

CmdHelp(in) ==
    /\ pc = "running"
    /\ in.parsed.err = "none"
    /\ in.parsed.cmd = W_help
    /\ Dispatch("help", in.line, display_help(book))

\* Any other first word.
CmdInvalid(in) ==
    /\ pc = "running"
    /\ in.parsed.err = "none"
    /\ in.parsed.cmd \notin KnownCommands
    /\ Dispatch("invalid", in.line, Done(book, <<Msg("Invalid command.", <<>>)>>, "none"))

Next ==
    \/ \E in \in ParsedLines : ReadBlank(in)
    \/ \E in \in ParsedLines : CmdExit(in)
    \/ \E in \in ParsedLines : CmdHello(in)
    \/ \E in \in ParsedLines : CmdAddBirthday(in)
    \/ \E in \in ParsedLines, a \in Addrs \ BookAddrs(book) : CmdAdd(in, a)
    \/ \E in \in ParsedLines : CmdPhone(in)
    \/ \E in \in ParsedLines : CmdAll(in)
    \/ \E in \in ParsedLines, t \in Todays : CmdBirthdays(in, t)
    \/ \E in \in ParsedLines : CmdHelp(in)
    \/ \E in \in ParsedLines : CmdInvalid(in)

Spec == Init /\ [][Next]_vars

\* C8: the loop ends on close/exit only and the book is saved before it
\* ends: whenever the loop has stopped, the last line was close or exit and
\* save_data has been called with the current book.
C8_StopsOnlyOnExitSaved ==
    pc # "running" =>
        /\ pc = "done"
        /\ last.op = "exit"
        /\ file = save_data(book)

\* C9: whenever a command handler fails (bad phone or date string, wrong
\* argument count, unknown contact, a runtime error of the birthday query)
\* a message is printed, the book is unchanged and the loop goes on.
C9_FailureIsReported ==
    last.fail # "none" =>
        /\ Len(out) > 0
        /\ book = last.pre
        /\ pc = "running"

\* C10: every entry's key is the name of the record stored under it and
\* every stored record holds exactly one phone, so phones[0] exists.
C10_OnePhonePerRecord ==
    \A i \in 1..Len(book) :
        /\ book[i].key = book[i].rec.name
        /\ Len(book[i].rec.phones) = 1

\* The phone command has printed phones[0] of a contact that was added
\* twice, with another contact in the book.
C10_Witness ==
    /\ last.op = "phone"
    /\ last.fail = "none"
    /\ Len(book) = 2
    /\ Len(out) = 1
    /\ out[1].text = "Phone number for"
    /\ Values(find(book, NameA).phones) = <<P2>>

====
